---- MODULE Spec2Model ----
(***************************************************************************)
(* Model of scripts/separate-snippets.ts: the snippet collector            *)
(* (collectSnippets), the transform pipeline (processSnippet and its four  *)
(* rewrites) and the run loop (main).                                      *)
(*                                                                         *)
(* A line of text is a TLA+ string; the operators below work on its        *)
(* characters, so the regular expressions and the string methods of the    *)
(* source are computed, not assumed.                                       *)
(***************************************************************************)
EXTENDS Integers, Sequences, FiniteSets, TLC

VARIABLES
    disk,           \* path -> lines of the source file (fs.readFileSync + split)
    fileNames,      \* result of listSnippetFiles(), in order
    pc,             \* position of main: "main", "scan", "emit", "done", "failed"
    fi,             \* index in fileNames of the file main is at
    lines,          \* collectSnippets: lines of the file being collected
    li,             \* collectSnippets: index of the next line of the for loop
    config,         \* collectSnippets: SnippetsConfig {enabled, suffix, map}
    mapKeys,        \* own keys of config.map in insertion order (for..in order)
    inSnippetNames, \* collectSnippets: names of the snippets we are within
    ei,             \* main: index in mapKeys of the next snippet to write
    out,            \* output files on disk: path -> content (lines joined)
    dirs,           \* output directories created by mkdirSync
    error,          \* the Error thrown out of main, or NoError
    readLog,        \* paths read by fs.readFileSync, in order
    writeLog,       \* fs.writeFileSync calls: <<source, path, content>>, in order
    mkdirLog,       \* mkdirSync calls: <<source, dir>>, in order
    tLines,         \* transform harness: current line sequence
    tPrev,          \* transform harness: argument of the last transform applied
    tOp,            \* transform harness: name of the last transform applied
    tSteps          \* transform harness: number of transforms applied

vars == <<disk, fileNames, pc, fi, lines, li, config, mapKeys, inSnippetNames,
          ei, out, dirs, error, readLog, writeLog, mkdirLog,
          tLines, tPrev, tOp, tSteps>>

mainVars == <<disk, fileNames, pc, fi, lines, li, config, mapKeys,
              inSnippetNames, ei, out, dirs, error, readLog, writeLog, mkdirLog>>

tVars == <<tLines, tPrev, tOp, tSteps>>

(***************************************************************************)
(* Strings                                                                 *)
(***************************************************************************)

\* s.substring(a-1, b) with 1-based inclusive bounds, clamped like JS.
Substring(s, a, b) ==
    LET lo == IF a < 1 THEN 1 ELSE a
        hi == IF b > Len(s) THEN Len(s) ELSE b
    IN  IF lo > hi THEN "" ELSE SubSeq(s, lo, hi)

CharAt(s, i) == Substring(s, i, i)

CharsOf(s) == {SubSeq(s, i, i) : i \in 1..Len(s)}

\* \s of the regular expressions and the white space of trim()/trimLeft().
WhiteSpace == {" ", "\t"}

Letters == CharsOf("abcdefghijklmnopqrstuvwxyzABCDEFGHIJKLMNOPQRSTUVWXYZ")

Digits == CharsOf("0123456789")

\* [A-Za-z_]
NameChars == Letters \cup {"_"}

\* [A-Za-z0-9_]
SuffixChars == Letters \cup Digits \cup {"_"}

\* s.startsWith(lit, i-1)
StartsWithAt(s, i, lit) ==
    /\ i >= 1
    /\ i + Len(lit) - 1 <= Len(s)
    /\ Substring(s, i, i + Len(lit) - 1) = lit

\* The first index >= i whose character is not in class C (Len(s)+1 if none):
\* the end of a greedy C* started at i.
RECURSIVE SkipWhile(_, _, _)
SkipWhile(s, i, C) ==
    IF i <= Len(s) /\ CharAt(s, i) \in C THEN SkipWhile(s, i + 1, C) ELSE i

\* s.indexOf(lit) (1-based; 0 when absent)
IndexOf(s, lit) ==
    LET I == {i \in 1..Len(s) : StartsWithAt(s, i, lit)}
    IN  IF I = {} THEN 0 ELSE CHOOSE i \in I : \A j \in I : i <= j

\* s.replace(lit, rep) with a string pattern: the first occurrence only.
ReplaceFirst(s, lit, rep) ==
    LET i == IndexOf(s, lit)
    IN  IF i = 0 THEN s
        ELSE Substring(s, 1, i - 1) \o rep \o Substring(s, i + Len(lit), Len(s))

\* s.replace(/c/g, rep) for a one-character pattern c.
RECURSIVE ReplaceAllChar(_, _, _)
ReplaceAllChar(s, c, rep) ==
    IF s = "" THEN ""
    ELSE (IF CharAt(s, 1) = c THEN rep ELSE CharAt(s, 1))
         \o ReplaceAllChar(Substring(s, 2, Len(s)), c, rep)

\* lines.join("\n")
RECURSIVE Join(_)
Join(ls) ==
    IF ls = <<>> THEN ""
    ELSE IF Len(ls) = 1 THEN ls[1]
    ELSE ls[1] \o "\n" \o Join(Tail(ls))

Min(S) == CHOOSE m \in S : \A n \in S : m <= n

(***************************************************************************)
(* Regular expressions.  A match is [found, index, last, g1, g2]: the      *)
(* 1-based first and last index of the matched text and the captures;     *)
(* NoMatch models null.                                                    *)
(***************************************************************************)

NoMatch == [found |-> FALSE]

\* "[KW" \s+ (C+) (\s*)? "]" anchored at i; trailingWs says whether \s* is
\* allowed before the closing bracket.
TagAt(s, i, kw, C, trailingWs) ==
    LET p1 == i + Len(kw)
        p2 == SkipWhile(s, p1, WhiteSpace)
        p3 == SkipWhile(s, p2, C)
        p4 == IF trailingWs THEN SkipWhile(s, p3, WhiteSpace) ELSE p3
    IN  IF /\ StartsWithAt(s, i, kw)
           /\ p2 > p1
           /\ p3 > p2
           /\ CharAt(s, p4) = "]"
        THEN [found |-> TRUE, index |-> i, last |-> p4,
              g1 |-> Substring(s, p2, p3 - 1)]
        ELSE NoMatch

\* Leftmost match of the tag pattern in s.
TagMatch(s, kw, C, trailingWs) ==
    LET I == {i \in 1..Len(s) : TagAt(s, i, kw, C, trailingWs).found}
    IN  IF I = {} THEN NoMatch ELSE TagAt(s, Min(I), kw, C, trailingWs)

\* line.match(/\[SNIPPETS_SEPARATION\s+enabled\]/)
RE_SNIPPETS_SEPARATION(s) ==
    LET kw == "[SNIPPETS_SEPARATION"
        I == {i \in 1..Len(s) :
                /\ StartsWithAt(s, i, kw)
                /\ SkipWhile(s, i + Len(kw), WhiteSpace) > i + Len(kw)
                /\ StartsWithAt(s, SkipWhile(s, i + Len(kw), WhiteSpace), "enabled]")}
    IN  I # {}

\* line.match(/\[SNIPPETS_SUFFIX\s+([A-Za-z0-9_]+)\]/)
RE_SNIPPETS_SUFFIX(s) == TagMatch(s, "[SNIPPETS_SUFFIX", SuffixChars, FALSE)

\* line.match(/\[START\s+([A-Za-z_]+)\s*\]/)
RE_START_SNIPPET(s) == TagMatch(s, "[START", NameChars, TRUE)

\* line.match(/\[END\s+([A-Za-z_]+)\s*\]/)
RE_END_SNIPPET(s) == TagMatch(s, "[END", NameChars, TRUE)

\* line.match(/const {(.+?)} = require\((.+?)\)/): both groups are lazy and
\* non-empty, so for the leftmost start the first group ends at the first
\* "} = require(" that is followed, after at least one character, by ")".
RE_REQUIRE(s) ==
    LET open == "const {"
        mid == "} = require("
        Ends(j) == {k \in (j + Len(mid) + 1)..Len(s) : CharAt(s, k) = ")"}
        Mids(i) == {j \in (i + Len(open) + 1)..Len(s) :
                      StartsWithAt(s, j, mid) /\ Ends(j) # {}}
        I == {i \in 1..Len(s) : StartsWithAt(s, i, open) /\ Mids(i) # {}}
    IN  IF I = {} THEN NoMatch
        ELSE LET i == Min(I)
                 j == Min(Mids(i))
                 k == Min(Ends(j))
             IN  [found |-> TRUE, index |-> i, last |-> k,
                  g1 |-> Substring(s, i + Len(open), j - 1),
                  g2 |-> Substring(s, j + Len(mid), k - 1)]

\* The value of a decimal digit character.
DigitValue(c) == IndexOf("0123456789", c) - 1

\* The replacement text of s.replace(re, template): $n and $nn in the
\* template stand for the captures (caps, in order).  A reference larger
\* than the number of captures is read as one digit when that is a capture,
\* and else left as written.  The templates of the script hold no other $
\* pattern.
RECURSIVE expandTemplate(_, _)
expandTemplate(t, caps) ==
    IF t = "" THEN ""
    ELSE IF CharAt(t, 1) = "$" /\ CharAt(t, 2) \in Digits
              /\ DigitValue(CharAt(t, 2)) <= Len(caps)
    THEN LET d1 == DigitValue(CharAt(t, 2))
             two == /\ CharAt(t, 3) \in Digits
                    /\ 10 * d1 + DigitValue(CharAt(t, 3)) <= Len(caps)
             ref == IF two THEN 10 * d1 + DigitValue(CharAt(t, 3)) ELSE d1
             used == IF two THEN 3 ELSE 2
         IN  IF ref > 0
             THEN caps[ref] \o expandTemplate(Substring(t, used + 1, Len(t)), caps)
             ELSE Substring(t, 1, used)
                  \o expandTemplate(Substring(t, used + 1, Len(t)), caps)
    ELSE CharAt(t, 1) \o expandTemplate(Substring(t, 2, Len(t)), caps)

\* s.replace(re, rep) for a non-global regular expression with match m.
ReplaceMatch(s, m, rep) ==
    Substring(s, 1, m.index - 1) \o rep \o Substring(s, m.last + 1, Len(s))

(***************************************************************************)
(* The transforms of processSnippet                                        *)
(***************************************************************************)

\* Variant of isBlank: the line is not trimmed before the test.
isBlank_noTrim(line) == Len(line) = 0

\* line.trim().length === 0
isBlank(line) == SkipWhile(line, 1, WhiteSpace) > Len(line)

\* l.length - l.trimLeft().length
indentSize(l) == SkipWhile(l, 1, WhiteSpace) - 1

\* line.substr(n)
substr(line, n) == Substring(line, n + 1, Len(line))

replaceRequireLine(line) ==
    LET m == RE_REQUIRE(line)
    IN  IF m.found
        THEN ReplaceMatch(line, m,
                          expandTemplate("import {$1} from $2", <<m.g1, m.g2>>))
        ELSE line

replaceRequireWithImport(ls) ==
    [i \in 1..Len(ls) |-> replaceRequireLine(ls[i])]

\* Variant of addSuffixLine: only the Start tags get the suffix.
addSuffixLine_startOnly(line, snippetSuffix) ==
    LET sm == RE_START_SNIPPET(line)
    IN  IF sm.found
        THEN ReplaceMatch(line, sm, "[START " \o sm.g1 \o snippetSuffix \o "]")
        ELSE line

addSuffixLine(line, snippetSuffix) ==
    LET sm == RE_START_SNIPPET(line)
        em == RE_END_SNIPPET(line)
    IN  IF sm.found
        THEN ReplaceMatch(line, sm,
                 expandTemplate("[START $1" \o snippetSuffix \o "]", <<sm.g1>>))
        ELSE IF em.found
        THEN ReplaceMatch(line, em,
                 expandTemplate("[END $1" \o snippetSuffix \o "]", <<em.g1>>))
        ELSE line

addSuffixToSnippetNames(ls, snippetSuffix) ==
    [i \in 1..Len(ls) |-> addSuffixLine(ls[i], snippetSuffix)]

\* Variant of minIndentOf: the blank lines are not filtered out.
minIndentOf_allLines(ls) ==
    Min({indentSize(ls[i]) : i \in 1..Len(ls)})

\* Math.min(...indentSizes); only read when there is a non-blank line.
minIndentOf(ls) ==
    Min({indentSize(ls[i]) : i \in {j \in 1..Len(ls) : ~isBlank(ls[j])}})

\* Variant of adjustIndentation: every line loses all its leading white space.
adjustIndentation_trimAll(ls) ==
    [i \in 1..Len(ls) |-> substr(ls[i], indentSize(ls[i]))]

adjustIndentation(ls) ==
    [i \in 1..Len(ls) |->
        IF isBlank(ls[i]) THEN "" ELSE substr(ls[i], minIndentOf(ls))]

\* outputLines.findIndex((l) => !l.startsWith("//")), 1-based, 0 for -1
firstNonCommentOf(ls) ==
    LET I == {i \in 1..Len(ls) : ~StartsWithAt(ls[i], 1, "//")}
    IN  IF I = {} THEN 0 ELSE Min(I)

\* outputLines.splice(i, 1)
RemoveAt(ls, i) == SubSeq(ls, 1, i - 1) \o SubSeq(ls, i + 1, Len(ls))

\* Variant of removeFirstLineAfterComments: every blank line that follows the
\* leading comments is removed, not only the first.
removeFirstLineAfterComments_repeat(ls) ==
    LET f == firstNonCommentOf(ls)
        R == {i \in 1..Len(ls) :
                f >= 1 /\ i >= f /\ \A j \in f..i : isBlank(ls[j])}
    IN  IF R = {} THEN ls
        ELSE SubSeq(ls, 1, f - 1) \o SubSeq(ls, f + Cardinality(R), Len(ls))

removeFirstLineAfterComments(ls) ==
    LET firstNonComment == firstNonCommentOf(ls)
    IN  IF firstNonComment >= 1 /\ isBlank(ls[firstNonComment])
        THEN RemoveAt(ls, firstNonComment)
        ELSE ls

preambleLines(sourceFile) ==
    << "// This snippet file was generated by processing the source file:",
       "// " \o sourceFile,
       "//",
       "// To update the snippets in this file, edit the source and then run",
       "// 'npm run snippets'.",
       "" >>

\* The four transformations of processSnippet, in order.
transformLines(ls, snippetSuffix) ==
    removeFirstLineAfterComments(
        adjustIndentation(
            addSuffixToSnippetNames(
                replaceRequireWithImport(ls), snippetSuffix)))

processSnippet(ls, sourceFile, snippetSuffix) ==
    Join(preambleLines(sourceFile) \o transformLines(ls, snippetSuffix))

(***************************************************************************)
(* collectSnippets                                                         *)
(***************************************************************************)

DEFAULT_SUFFIX == "_modular"

NoError == ""

\* config.map is an object literal {}: besides its own keys, reading
\* config.map[name] finds the properties it inherits from Object.prototype.
\* These are the inherited names that match [A-Za-z_]+.
ObjectPrototypeKeys ==
    {"constructor", "toString", "toLocaleString", "valueOf", "hasOwnProperty",
     "isPrototypeOf", "propertyIsEnumerable", "__proto__", "__defineGetter__",
     "__defineSetter__", "__lookupGetter__", "__lookupSetter__"}

EmptyMap == [n \in {} |-> <<>>]

\* Variant of mapDefined: only the inherited names are looked up, the
\* snippets collected so far are not.
mapDefined_protoOnly(map, snippetName) == snippetName \in ObjectPrototypeKeys

\* Variant of mapDefined: the duplicate check is dropped.
mapDefined_never(map, snippetName) == FALSE

\* config.map[snippetName] !== undefined
mapDefined(map, snippetName) ==
    snippetName \in DOMAIN map \/ snippetName \in ObjectPrototypeKeys

\* Variant of enabledOf: a file with a Start tag counts as enabled too.
enabledOf_orStart(ls) ==
    \E i \in 1..Len(ls) :
        RE_SNIPPETS_SEPARATION(ls[i]) \/ RE_START_SNIPPET(ls[i]).found

\* lines.some((l) => !!l.match(RE_SNIPPETS_SEPARATION))
enabledOf(ls) == \E i \in 1..Len(ls) : RE_SNIPPETS_SEPARATION(ls[i])

\* Variant of suffixOf: the last suffix marker of the file wins.
suffixOf_last(ls) ==
    LET I == {i \in 1..Len(ls) : RE_SNIPPETS_SUFFIX(ls[i]).found}
    IN  IF I = {} THEN DEFAULT_SUFFIX
        ELSE RE_SNIPPETS_SUFFIX(ls[CHOOSE i \in I : \A j \in I : j <= i]).g1

\* lines.find((l) => !!l.match(RE_SNIPPETS_SUFFIX)), then m[1]; else the default
suffixOf(ls) ==
    LET I == {i \in 1..Len(ls) : RE_SNIPPETS_SUFFIX(ls[i]).found}
    IN  IF I = {} THEN DEFAULT_SUFFIX ELSE RE_SNIPPETS_SUFFIX(ls[Min(I)]).g1

\* inSnippetNames.includes(snippetName)
includes(names, snippetName) == \E i \in 1..Len(names) : names[i] = snippetName

\* names.indexOf(snippetName), 1-based
indexOfName(names, snippetName) ==
    Min({i \in 1..Len(names) : names[i] = snippetName})

\* Variant of spliceName: no name is removed.
spliceName_keep(names, snippetName) == names

\* Variant of spliceName: the first name is removed (shift), whatever it is.
spliceName_shift(names, snippetName) == Tail(names)

\* inSnippetNames.splice(inSnippetNames.indexOf(snippetName), 1)
spliceName(names, snippetName) == RemoveAt(names, indexOfName(names, snippetName))

\* config.map[snippetName] = [line]
mapSet(map, snippetName, line) == (snippetName :> <<line>>) @@ map

\* config.map[snippetName].push(line)
mapPush(map, snippetName, line) ==
    [map EXCEPT ![snippetName] = Append(@, line)]

\* Variant of pushToAll: the line goes to every snippet of the map, open or not.
pushToAll_allKeys(map, names, line) ==
    [n \in DOMAIN map |-> IF names # <<>> THEN Append(map[n], line) ELSE map[n]]

\* Variant of pushToAll: only the innermost (last opened) snippet gets the line.
pushToAll_innermost(map, names, line) ==
    [n \in DOMAIN map |->
        IF names # <<>> /\ n = names[Len(names)] THEN Append(map[n], line)
        ELSE map[n]]

\* for (const snippetName of inSnippetNames) config.map[snippetName].push(line)
pushToAll(map, names, line) ==
    [n \in DOMAIN map |->
        IF includes(names, n) THEN Append(map[n], line) ELSE map[n]]

duplicateMessage(snippetName) ==
    "Detected more than one snippet with the tag " \o snippetName \o "!"

unmatchedMessage(snippetName, filePath) ==
    "Unrecognized END tag " \o snippetName \o " in " \o filePath \o "."

(***************************************************************************)
(* main                                                                    *)
(***************************************************************************)

\* filePath.replace(".js", "").replace("./", "").replace(/\./g, "-")
fileSlugOf(filePath) ==
    ReplaceAllChar(ReplaceFirst(ReplaceFirst(filePath, ".js", ""), "./", ""),
                   ".", "-")

\* path.join("./snippets", fileSlug)
snippetDirOf(filePath) == "snippets/" \o fileSlugOf(filePath)

\* path.join(snippetDir, `${snippetName}.js`)
newFilePathOf(filePath, snippetName) ==
    snippetDirOf(filePath) \o "/" \o snippetName \o ".js"

filePath == fileNames[fi]

line == lines[li]

\* main takes the next file and collectSnippets finds no enablement marker:
\* it returns the initial config and main continues with the next file.
SkipFile ==
    /\ pc = "main"
    /\ fi <= Len(fileNames)
    /\ ~enabledOf(disk[filePath])
    /\ lines' = disk[filePath]
    /\ readLog' = Append(readLog, filePath)
    /\ config' = [enabled |-> FALSE, suffix |-> DEFAULT_SUFFIX, map |-> EmptyMap]
    /\ mapKeys' = <<>>
    /\ inSnippetNames' = <<>>
    /\ li' = 1
    /\ fi' = fi + 1
    /\ UNCHANGED <<disk, fileNames, pc, ei, out, dirs, error, writeLog, mkdirLog>>
    /\ UNCHANGED tVars

\* main takes the next file and collectSnippets finds it enabled: the suffix
\* is read and the scan of the lines starts.
BeginScan ==
    /\ pc = "main"
    /\ fi <= Len(fileNames)
    /\ enabledOf(disk[filePath])
    /\ lines' = disk[filePath]
    /\ readLog' = Append(readLog, filePath)
    /\ config' = [enabled |-> TRUE, suffix |-> suffixOf(disk[filePath]),
                  map |-> EmptyMap]
    /\ mapKeys' = <<>>
    /\ inSnippetNames' = <<>>
    /\ li' = 1
    /\ pc' = "scan"
    /\ UNCHANGED <<disk, fileNames, fi, ei, out, dirs, error, writeLog, mkdirLog>>
    /\ UNCHANGED tVars

scanning == pc = "scan" /\ li <= Len(lines)

\* Variant of throw: the error is recorded and main goes on with the next
\* file (per-file isolation).
throw_continue(message) ==
    /\ error' = message
    /\ pc' = "main"
    /\ fi' = fi + 1
    /\ UNCHANGED <<disk, fileNames, lines, li, config, mapKeys,
                   inSnippetNames, ei, out, dirs, readLog, writeLog, mkdirLog>>
    /\ UNCHANGED tVars

\* throw new Error(message): nothing catches it, main is over
throw(message) ==
    /\ error' = message
    /\ pc' = "failed"
    /\ UNCHANGED <<disk, fileNames, fi, lines, li, config, mapKeys,
                   inSnippetNames, ei, out, dirs, readLog, writeLog, mkdirLog>>
    /\ UNCHANGED tVars

\* Variant of StartTag: the Start line is also pushed to the snippets that
\* are open.
StartTag_fanout ==
    /\ scanning
    /\ RE_START_SNIPPET(line).found
    /\ LET snippetName == RE_START_SNIPPET(line).g1
       IN  /\ ~mapDefined(config.map, snippetName)
           /\ config' = [config EXCEPT !.map =
                    mapSet(pushToAll(@, inSnippetNames, line), snippetName, line)]
           /\ mapKeys' = Append(mapKeys, snippetName)
           /\ inSnippetNames' = Append(inSnippetNames, snippetName)
    /\ li' = li + 1
    /\ UNCHANGED <<disk, fileNames, pc, fi, lines, ei, out, dirs, error,
                   readLog, writeLog, mkdirLog>>
    /\ UNCHANGED tVars

\* if (startMatch) with a name that config.map does not know
StartTag ==
    /\ scanning
    /\ RE_START_SNIPPET(line).found
    /\ LET snippetName == RE_START_SNIPPET(line).g1
       IN  /\ ~mapDefined(config.map, snippetName)
           /\ config' = [config EXCEPT !.map = mapSet(@, snippetName, line)]
           /\ mapKeys' = Append(mapKeys, snippetName)
           /\ inSnippetNames' = Append(inSnippetNames, snippetName)
    /\ li' = li + 1
    /\ UNCHANGED <<disk, fileNames, pc, fi, lines, ei, out, dirs, error,
                   readLog, writeLog, mkdirLog>>
    /\ UNCHANGED tVars

\* if (startMatch) with config.map[snippetName] !== undefined: throw
DuplicateStart ==
    /\ scanning
    /\ RE_START_SNIPPET(line).found
    /\ mapDefined(config.map, RE_START_SNIPPET(line).g1)
    /\ throw(duplicateMessage(RE_START_SNIPPET(line).g1))

\* else if (endMatch) with the name in inSnippetNames
EndTag ==
    /\ scanning
    /\ ~RE_START_SNIPPET(line).found
    /\ RE_END_SNIPPET(line).found
    /\ LET snippetName == RE_END_SNIPPET(line).g1
       IN  /\ includes(inSnippetNames, snippetName)
           /\ config' = [config EXCEPT !.map = mapPush(@, snippetName, line)]
           /\ inSnippetNames' = spliceName(inSnippetNames, snippetName)
    /\ li' = li + 1
    /\ UNCHANGED <<disk, fileNames, pc, fi, lines, mapKeys, ei, out, dirs,
                   error, readLog, writeLog, mkdirLog>>
    /\ UNCHANGED tVars

\* else if (endMatch) with the name not in inSnippetNames: throw
UnmatchedEnd ==
    /\ scanning
    /\ ~RE_START_SNIPPET(line).found
    /\ RE_END_SNIPPET(line).found
    /\ ~includes(inSnippetNames, RE_END_SNIPPET(line).g1)
    /\ throw(unmatchedMessage(RE_END_SNIPPET(line).g1, filePath))

\* a line that is neither START nor END: appended to every snippet we are in
\* (nothing to do when inSnippetNames is empty)
ContentLine ==
    /\ scanning
    /\ ~RE_START_SNIPPET(line).found
    /\ ~RE_END_SNIPPET(line).found
    /\ config' = [config EXCEPT !.map = pushToAll(@, inSnippetNames, line)]
    /\ li' = li + 1
    /\ UNCHANGED <<disk, fileNames, pc, fi, lines, mapKeys, inSnippetNames, ei,
                   out, dirs, error, readLog, writeLog, mkdirLog>>
    /\ UNCHANGED tVars

\* collectSnippets returns the config; main creates the snippet directory
\* when it does not exist and starts the loop over config.map.
FinishScan ==
    /\ pc = "scan"
    /\ li > Len(lines)
    /\ dirs' = dirs \cup {snippetDirOf(filePath)}
    /\ mkdirLog' = IF snippetDirOf(filePath) \in dirs THEN mkdirLog
                   ELSE Append(mkdirLog, <<filePath, snippetDirOf(filePath)>>)
    /\ ei' = 1
    /\ pc' = "emit"
    /\ UNCHANGED <<disk, fileNames, fi, lines, li, config, mapKeys,
                   inSnippetNames, out, error, readLog, writeLog>>
    /\ UNCHANGED tVars

\* one iteration of for (const snippetName in config.map)
WriteSnippet ==
    /\ pc = "emit"
    /\ ei <= Len(mapKeys)
    /\ LET snippetName == mapKeys[ei]
           newFilePath == newFilePathOf(filePath, snippetName)
           content == processSnippet(config.map[snippetName], filePath,
                                     config.suffix)
       IN  /\ out' = (newFilePath :> content) @@ out
           /\ writeLog' = Append(writeLog, <<filePath, newFilePath, content>>)
    /\ ei' = ei + 1
    /\ UNCHANGED <<disk, fileNames, pc, fi, lines, li, config, mapKeys,
                   inSnippetNames, dirs, error, readLog, mkdirLog>>
    /\ UNCHANGED tVars

\* the loop over config.map is over: next iteration of the loop over fileNames
NextFile ==
    /\ pc = "emit"
    /\ ei > Len(mapKeys)
    /\ fi' = fi + 1
    /\ pc' = "main"
    /\ UNCHANGED <<disk, fileNames, lines, li, config, mapKeys, inSnippetNames,
                   ei, out, dirs, error, readLog, writeLog, mkdirLog>>
    /\ UNCHANGED tVars

\* the loop over fileNames is over: main returns
Finish ==
    /\ pc = "main"
    /\ fi > Len(fileNames)
    /\ pc' = "done"
    /\ UNCHANGED <<disk, fileNames, fi, lines, li, config, mapKeys,
                   inSnippetNames, ei, out, dirs, error, readLog, writeLog,
                   mkdirLog>>
    /\ UNCHANGED tVars

(***************************************************************************)
(* The transform harness: the four rewrites applied to arbitrary lines     *)
(***************************************************************************)

MaxTLen == 3        \* longest line sequence given to the transforms
MaxTSteps == 2      \* number of transforms applied in a row

\* outputLines = replaceRequireWithImport(outputLines)
ApplyReplaceRequire ==
    /\ pc = "transform"
    /\ tSteps < MaxTSteps
    /\ tPrev' = tLines
    /\ tLines' = replaceRequireWithImport(tLines)
    /\ tOp' = "replaceRequireWithImport"
    /\ tSteps' = tSteps + 1
    /\ UNCHANGED mainVars

\* outputLines = addSuffixToSnippetNames(outputLines, snippetSuffix)
ApplyAddSuffix ==
    /\ pc = "transform"
    /\ tSteps < MaxTSteps
    /\ tPrev' = tLines
    /\ \E snippetSuffix \in {DEFAULT_SUFFIX, "_doc"} :
          tLines' = addSuffixToSnippetNames(tLines, snippetSuffix)
    /\ tOp' = "addSuffixToSnippetNames"
    /\ tSteps' = tSteps + 1
    /\ UNCHANGED mainVars

\* outputLines = adjustIndentation(outputLines)
ApplyAdjustIndentation ==
    /\ pc = "transform"
    /\ tSteps < MaxTSteps
    /\ tPrev' = tLines
    /\ tLines' = adjustIndentation(tLines)
    /\ tOp' = "adjustIndentation"
    /\ tSteps' = tSteps + 1
    /\ UNCHANGED mainVars

\* outputLines = removeFirstLineAfterComments(outputLines)
ApplyRemoveFirstLine ==
    /\ pc = "transform"
    /\ tSteps < MaxTSteps
    /\ tPrev' = tLines
    /\ tLines' = removeFirstLineAfterComments(tLines)
    /\ tOp' = "removeFirstLineAfterComments"
    /\ tSteps' = tSteps + 1
    /\ UNCHANGED mainVars

(***************************************************************************)
(* Inputs                                                                  *)
(***************************************************************************)

MaxBody == 4        \* longest tag/content body of a generated file
MaxFiles == 3       \* longest list of files in a run over several files

BoundedSeqs(S, n) == UNION {[1..k -> S] : k \in 0..n}

EnableLine == "// [SNIPPETS_SEPARATION enabled]"

\* Lines of the generated bodies: Start and End tags of a and b, and a
\* content line.
TagPool ==
    {"// [START a]", "// [END a]", "  // [START  b]", "  // [END b ]",
     "  foo();"}

ContentPool == {"", "  foo();", "\tbar();"}

SuffixPool ==
    {"// [SNIPPETS_SUFFIX _doc]", "/* [SNIPPETS_SUFFIX  _x9] */",
     "// [SNIPPETS_SUFFIX 2x]"}

\* Files of one body, with the enablement marker first, last or absent.
BodyFiles ==
    {pre \o body \o post :
        pre \in {<<>>, <<EnableLine>>},
        body \in BoundedSeqs(TagPool, MaxBody),
        post \in {<<>>, <<"/* [SNIPPETS_SEPARATION  enabled] */">>}}

\* [START a] L1 [START b] L2 [END b] L3 [END a]
NestFiles ==
    {<<EnableLine, "// [START a]", c[1], "// [START b]", c[2], "// [END b]",
       c[3], "// [END a]">> : c \in [1..3 -> ContentPool]}

\* Region names: ordinary ones, and names that Object.prototype defines.
NamePool == {"x", "snippet_name", "constructor", "__proto__"}

\* One region [START n] ... [END n] in an enabled file, with content before,
\* inside and after it.
SingleFiles ==
    {<<EnableLine>> \o pre \o <<"// [START " \o n \o "]">> \o mid
        \o <<"// [END " \o n \o "]">> \o post :
        n \in NamePool,
        pre \in BoundedSeqs(ContentPool, 1),
        mid \in BoundedSeqs(ContentPool \cup {"/* [SNIPPETS_SEPARATION  enabled] */",
                                               "// [SNIPPETS_SUFFIX _doc]"}, 1),
        post \in BoundedSeqs(ContentPool, 1)}

\* A Start with no End in an enabled file.
DanglingFiles ==
    {<<EnableLine, "// [START " \o n \o "]">> \o rest :
        n \in NamePool,
        rest \in BoundedSeqs(ContentPool \cup {"// [START b] [END b]"}, 1)}

\* The region demo: [START demo], a blank line, an indented require, [END demo],
\* with the tags written as comments, bare, or indented comments.
DemoRegions ==
    { <<"// [START demo]", "", "  const {x} = require('y')", "// [END demo]">>,
      <<"[START demo]", "", "  const {x} = require('y')", "[END demo]">>,
      <<"  // [START demo]", "", "  const {x} = require('y')", "  // [END demo]">> }

\* The region demo in an enabled file, with suffix markers before and after it.
DemoFiles ==
    {<<EnableLine>> \o pre \o region \o post :
        pre \in BoundedSeqs(SuffixPool, 2),
        region \in DemoRegions,
        post \in BoundedSeqs(SuffixPool, 1)}

FilePaths == {"./a.js", "./b.c.js", "./b-c.js", "./lib/d.js"}

\* The files of a run over several files: one without the marker, one with
\* two overlapping regions, one with a duplicate Start, one with an
\* unmatched End.
SampleFiles ==
    { <<"// [START a]", "  foo();", "// [END a]">>,
      <<EnableLine, "// [START a]", "// [START b]", "", "// [END a]", "// [END b]">>,
      <<EnableLine, "// [START a]", "// [END a]", "// [START a]">>,
      <<EnableLine, "// [START b]", "// [END b]", "// [END b]">> }

\* Lists of distinct paths, and the content of each
Runs ==
    { r \in [names : UNION {[1..k -> FilePaths] : k \in 2..MaxFiles}] :
        \A i, j \in DOMAIN r.names : i # j => r.names[i] # r.names[j] }

mainStart(names, files) ==
    /\ fileNames = names
    /\ disk = files
    /\ pc = "main"
    /\ fi = 1
    /\ lines = <<>>
    /\ li = 1
    /\ config = [enabled |-> FALSE, suffix |-> DEFAULT_SUFFIX, map |-> EmptyMap]
    /\ mapKeys = <<>>
    /\ inSnippetNames = <<>>
    /\ ei = 1
    /\ out = [p \in {} |-> ""]
    /\ dirs = {}
    /\ error = NoError
    /\ readLog = <<>>
    /\ writeLog = <<>>
    /\ mkdirLog = <<>>

tIdle ==
    /\ tLines = <<>>
    /\ tPrev = <<>>
    /\ tOp = "none"
    /\ tSteps = 0

\* A run over one file, or over several sample files.
Init ==
    /\ \/ \E f \in BodyFiles \cup NestFiles \cup SingleFiles \cup DanglingFiles
                   \cup DemoFiles :
             mainStart(<<"./a.js">>, [p \in {"./a.js"} |-> f])
       \/ \E r \in Runs :
             \E files \in [{r.names[i] : i \in DOMAIN r.names} -> SampleFiles] :
                mainStart(r.names, files)
    /\ tIdle

Next ==
    \/ SkipFile
    \/ BeginScan
    \/ StartTag
    \/ DuplicateStart
    \/ EndTag
    \/ UnmatchedEnd
    \/ ContentLine
    \/ FinishScan
    \/ WriteSnippet
    \/ NextFile
    \/ Finish

Spec == Init /\ [][Next]_vars

\* Lines given to the transforms: blank lines of several kinds, comments,
\* tags and code at several indentations.
TLinePool ==
    {"", "  ", "// c", "  // [START a]", "    x", "\t\tconst {x} = require('y')"}

TInit ==
    /\ fileNames = <<>>
    /\ disk = [p \in {} |-> <<>>]
    /\ pc = "transform"
    /\ fi = 1
    /\ lines = <<>>
    /\ li = 1
    /\ config = [enabled |-> FALSE, suffix |-> DEFAULT_SUFFIX, map |-> EmptyMap]
    /\ mapKeys = <<>>
    /\ inSnippetNames = <<>>
    /\ ei = 1
    /\ out = [p \in {} |-> ""]
    /\ dirs = {}
    /\ error = NoError
    /\ readLog = <<>>
    /\ writeLog = <<>>
    /\ mkdirLog = <<>>
    /\ tLines \in BoundedSeqs(TLinePool, MaxTLen)
    /\ tPrev = <<>>
    /\ tOp = "none"
    /\ tSteps = 0

TNext ==
    \/ ApplyReplaceRequire
    \/ ApplyAddSuffix
    \/ ApplyAdjustIndentation
    \/ ApplyRemoveFirstLine

TransformSpec == TInit /\ [][TNext]_vars

(***************************************************************************)
(* Properties                                                              *)
(***************************************************************************)

\* The classification of a line by the if / else if chain of the scan:
\* a Start match wins over an End match.
kindOf(l) ==
    IF RE_START_SNIPPET(l).found THEN "Start"
    ELSE IF RE_END_SNIPPET(l).found THEN "End"
    ELSE "None"

\* The region name of a tag line.
nameOf(l) ==
    IF RE_START_SNIPPET(l).found THEN RE_START_SNIPPET(l).g1
    ELSE RE_END_SNIPPET(l).g1

isStartOf(l, n) == kindOf(l) = "Start" /\ nameOf(l) = n

isEndOf(l, n) == kindOf(l) = "End" /\ nameOf(l) = n

HasEnablementMarker(ls) == \E i \in 1..Len(ls) : RE_SNIPPETS_SEPARATION(ls[i])

OpenSet == {inSnippetNames[i] : i \in 1..Len(inSnippetNames)}

\* ls ends with [START a] L1 [START b] L2 [END b] L3 [END a], after k lines
\* that are no tags.
NestAt(ls, k) ==
    /\ k >= 0
    /\ Len(ls) = k + 7
    /\ \A i \in 1..k : kindOf(ls[i]) = "None"
    /\ isStartOf(ls[k + 1], "a")
    /\ kindOf(ls[k + 2]) = "None"
    /\ isStartOf(ls[k + 3], "b")
    /\ kindOf(ls[k + 4]) = "None"
    /\ isEndOf(ls[k + 5], "b")
    /\ kindOf(ls[k + 6]) = "None"
    /\ isEndOf(ls[k + 7], "a")

\* C1 as stated -- Nesting: when collectSnippets has returned for an enabled
\* file whose tag and content lines are [START a] L1 [START b] L2 [END b] L3
\* [END a], region a is the seven lines from [START a] to [END a] and region
\* b is the three lines [START b], L2, [END b].
C1_AsStated ==
    (pc = "emit" /\ NestAt(lines, Len(lines) - 7)) =>
        LET k == Len(lines) - 7
        IN  /\ DOMAIN config.map = {"a", "b"}
            /\ config.map["a"] = SubSeq(lines, k + 1, k + 7)
            /\ config.map["b"] = SubSeq(lines, k + 3, k + 5)

\* C1 -- Nesting, amended: for such a file the mapping has exactly the regions
\* a and b; region a is [START a], L1, L2, L3, [END a] (the tag lines of b
\* are not collected into a) and region b is [START b], L2, [END b]: L1 and
\* L3 are in a only, L2 is in both.
C1_Nesting ==
    (pc = "emit" /\ NestAt(lines, Len(lines) - 7)) =>
        LET k == Len(lines) - 7
        IN  /\ DOMAIN config.map = {"a", "b"}
            /\ config.map["a"] = << lines[k + 1], lines[k + 2], lines[k + 4],
                                    lines[k + 6], lines[k + 7] >>
            /\ config.map["b"] = << lines[k + 3], lines[k + 4], lines[k + 5] >>

\* Reached: such a file collected, with L1, L2, L3 told apart.
C1_Witness ==
    /\ pc = "emit"
    /\ NestAt(lines, Len(lines) - 7)
    /\ lines[Len(lines) - 5] # lines[Len(lines) - 3]
    /\ lines[Len(lines) - 3] # lines[Len(lines) - 1]

\* Line j of ls is a Start tag whose name an earlier Start tag of ls carries.
RepeatedStartAt(ls, j) ==
    /\ kindOf(ls[j]) = "Start"
    /\ \E i \in 1..(j - 1) : isStartOf(ls[i], nameOf(ls[j]))

RepeatedStarts(ls) == {j \in 1..Len(ls) : RepeatedStartAt(ls, j)}

\* The collection of the k-th file read is over.
collectionOver(k) == k < Len(readLog) \/ pc # "scan"

\* C2 as stated -- for every file in which two Start tag lines carry the
\* same name, collecting the file raises the duplicate-snippet-name error at
\* the second of them and processes no further line.
C2_AsStated ==
    \A k \in 1..Len(readLog) :
        LET ls == disk[readLog[k]]
        IN  (collectionOver(k) /\ RepeatedStarts(ls) # {}) =>
                /\ pc = "failed"
                /\ fi = k
                /\ li = Min(RepeatedStarts(ls))
                /\ error = duplicateMessage(nameOf(ls[li]))

\* C2 -- Duplicate Start, amended: in an enabled file, whenever the scan
\* reaches a Start tag line whose name an earlier Start tag line of the file
\* carries, that step raises the duplicate-snippet-name error and changes
\* nothing else, and after the error no line is processed; whether the
\* first region is still open or was closed by its End tag.
C2_DuplicateStart ==
    [][ /\ (pc = "scan" /\ li <= Len(lines) /\ RepeatedStartAt(lines, li)) =>
              /\ pc' = "failed"
              /\ error' = duplicateMessage(nameOf(lines[li]))
              /\ li' = li
              /\ config' = config
              /\ inSnippetNames' = inSnippetNames
        /\ (pc = "failed") => (pc' = "failed" /\ li' = li /\ config' = config)
      ]_vars

\* Reached: the error raised at a second Start whose first region was closed.
C2_Witness ==
    /\ pc = "failed"
    /\ li <= Len(lines)
    /\ RepeatedStartAt(lines, li)
    /\ nameOf(lines[li]) \notin OpenSet
    /\ nameOf(lines[li]) \in DOMAIN config.map
    /\ error = duplicateMessage(nameOf(lines[li]))

\* C3 -- Unmatched End: whenever the scan is at an End tag line, if the name
\* is not in the open set the step raises the unmatched-end-tag error and
\* collects nothing; if it is, the step appends the line to that region,
\* removes the name from the open set and goes on to the next line.
C3_UnmatchedEnd ==
    [][ (pc = "scan" /\ li <= Len(lines) /\ kindOf(lines[li]) = "End") =>
            LET n == nameOf(lines[li])
            IN  IF n \notin OpenSet
                THEN /\ pc' = "failed"
                     /\ error' = unmatchedMessage(n, fileNames[fi])
                     /\ config' = config
                ELSE /\ pc' = "scan"
                     /\ error' = NoError
                     /\ li' = li + 1
                     /\ config'.map[n] = Append(config.map[n], lines[li])
                     /\ n \notin {inSnippetNames'[i] : i \in 1..Len(inSnippetNames')}
                     /\ {inSnippetNames'[i] : i \in 1..Len(inSnippetNames')}
                           = OpenSet \ {n}
      ]_vars

\* Reached: the error raised at the End of a region that was started and
\* already ended, while another region is open.
C3_Witness ==
    /\ pc = "failed"
    /\ li <= Len(lines)
    /\ kindOf(lines[li]) = "End"
    /\ nameOf(lines[li]) \in DOMAIN config.map
    /\ nameOf(lines[li]) \notin OpenSet
    /\ OpenSet # {}
    /\ error = unmatchedMessage(nameOf(lines[li]), fileNames[fi])

\* C4 -- Enablement gating: for every file read that has no enablement marker
\* line, collectSnippets returned enabled = false with an empty mapping, the
\* run did not fail in that file, and no writeFileSync or mkdirSync call was
\* made for it.
C4_EnablementGating ==
    \A k \in 1..Len(readLog) :
        ~HasEnablementMarker(disk[readLog[k]]) =>
            /\ (k = Len(readLog)) =>
                  /\ pc \in {"main", "done"}
                  /\ config.enabled = FALSE
                  /\ config.map = EmptyMap
                  /\ error = NoError
            /\ (pc = "failed") => fileNames[fi] # readLog[k]
            /\ \A w \in 1..Len(writeLog) : writeLog[w][1] # readLog[k]
            /\ \A m \in 1..Len(mkdirLog) : mkdirLog[m][1] # readLog[k]

\* Reached: a file without the marker that holds a duplicate Start and an
\* End tag was read and the run finished with nothing written.
C4_Witness ==
    /\ pc = "done"
    /\ Len(readLog) = 1
    /\ ~HasEnablementMarker(lines)
    /\ RepeatedStarts(lines) # {}
    /\ \E i \in 1..Len(lines) : kindOf(lines[i]) = "End"
    /\ DOMAIN out = {}
    /\ dirs = {}

\* C5 as stated -- Region shape: when collectSnippets has returned without
\* error, every region of the mapping begins with the Start tag line naming
\* it and ends with the End tag line naming it.
C5_RegionShape ==
    (pc = "emit") =>
        \A n \in DOMAIN config.map :
            /\ isStartOf(config.map[n][1], n)
            /\ isEndOf(config.map[n][Len(config.map[n])], n)

\* The writes logged for path p, as indices of writeLog.
writesTo(p) == {w \in 1..Len(writeLog) : writeLog[w][2] = p}

\* C6 -- Fail-fast run: the files are read in list order; once an error is
\* raised in file k the run is over, the files read are the first k of the
\* list, every write made was made for a file before k, and the output
\* files are exactly those writes, each with the content last written.
C6_FailFast ==
    /\ readLog = SubSeq(fileNames, 1, Len(readLog))
    /\ (error # NoError) =>
          /\ pc = "failed"
          /\ readLog = SubSeq(fileNames, 1, fi)
          /\ \A w \in 1..Len(writeLog) :
                \E k \in 1..(fi - 1) : writeLog[w][1] = fileNames[k]
          /\ DOMAIN out = {writeLog[w][2] : w \in 1..Len(writeLog)}
          /\ \A p \in DOMAIN out :
                out[p] = writeLog[CHOOSE w \in writesTo(p) :
                                     \A v \in writesTo(p) : v <= w][3]

\* Reached: the run failed in a file that is neither the first nor the last,
\* with output written for an earlier file.
C6_Witness ==
    /\ pc = "failed"
    /\ error # NoError
    /\ 1 < fi
    /\ fi < Len(fileNames)
    /\ writeLog # <<>>

\* ls is enabled and its only tags are a Start of x at s and an End of x at e.
SingleRegionAt(ls, s, e) ==
    /\ HasEnablementMarker(ls)
    /\ s < e
    /\ kindOf(ls[s]) = "Start"
    /\ isEndOf(ls[e], nameOf(ls[s]))
    /\ \A i \in 1..Len(ls) : i \notin {s, e} => kindOf(ls[i]) = "None"

\* C7 as stated -- Single region: for every enabled file whose only tags are
\* one Start of x and, later, one End of x, collecting it succeeds and the
\* region x is exactly the lines from the Start to the End inclusive.
C7_SingleRegion ==
    \A s, e \in 1..Len(lines) :
        (pc \in {"emit", "failed"} /\ SingleRegionAt(lines, s, e)) =>
            /\ pc = "emit"
            /\ DOMAIN config.map = {nameOf(lines[s])}
            /\ config.map[nameOf(lines[s])] = SubSeq(lines, s, e)

\* The header of the file written for a snippet of ./a.js, up to the body.
HeaderOfA ==
    "// This snippet file was generated by processing the source file:\n"
    \o "// ./a.js\n"
    \o "//\n"
    \o "// To update the snippets in this file, edit the source and then run\n"
    \o "// 'npm run snippets'.\n"
    \o "\n"

\* The run over ./a.js is over, its suffix was _doc and its only region is
\* demo with the given lines.
demoWritten(region) ==
    /\ pc = "done"
    /\ fileNames = <<"./a.js">>
    /\ config.suffix = "_doc"
    /\ DOMAIN config.map = {"demo"}
    /\ config.map["demo"] = region
    /\ "snippets/a/demo.js" \in DOMAIN out

DemoComment ==
    <<"// [START demo]", "", "  const {x} = require('y')", "// [END demo]">>

DemoBare ==
    <<"[START demo]", "", "  const {x} = require('y')", "[END demo]">>

DemoIndented ==
    <<"  // [START demo]", "", "  const {x} = require('y')", "  // [END demo]">>

\* C8 as stated -- End-to-end example: for the region [START demo], a blank
\* line, the two-space-indented require line, [END demo] (tag lines not
\* indented, bare or as comments) and suffix _doc, the body written after
\* the header is the Start tag with demo_doc, import {x} from 'y' with no
\* indentation, the End tag with demo_doc; the blank line is removed.
C8_AsStated ==
    /\ demoWritten(DemoComment) =>
          out["snippets/a/demo.js"] = HeaderOfA
              \o "// [START demo_doc]\nimport {x} from 'y'\n// [END demo_doc]"
    /\ demoWritten(DemoBare) =>
          out["snippets/a/demo.js"] = HeaderOfA
              \o "[START demo_doc]\nimport {x} from 'y'\n[END demo_doc]"

\* C8 -- End-to-end example, amended: with the tag lines written as comments
\* at zero indentation the body is the three lines // [START demo_doc], the
\* import line still indented by two spaces (the tag lines set the minimum
\* indentation to 0), // [END demo_doc], and the blank line is removed; with
\* bare tag lines the blank line stays as well (the first line that is no
\* comment is the Start tag); only with tag lines indented by two spaces
\* does the import line come out at zero indentation.
C8_EndToEnd ==
    /\ demoWritten(DemoComment) =>
          out["snippets/a/demo.js"] = HeaderOfA
              \o "// [START demo_doc]\n  import {x} from 'y'\n// [END demo_doc]"
    /\ demoWritten(DemoBare) =>
          out["snippets/a/demo.js"] = HeaderOfA
              \o "[START demo_doc]\n\n  import {x} from 'y'\n[END demo_doc]"
    /\ demoWritten(DemoIndented) =>
          out["snippets/a/demo.js"] = HeaderOfA
              \o "// [START demo_doc]\nimport {x} from 'y'\n// [END demo_doc]"

\* Reached: the example with comment tag lines was written.
C8_Witness == demoWritten(DemoComment)

\* The number of leading white-space characters of l.
leadingWs(l) ==
    Cardinality({k \in 1..Len(l) : \A j \in 1..k : CharAt(l, j) \in WhiteSpace})

blank(l) == leadingWs(l) = Len(l)

nonBlanks(ls) == {i \in 1..Len(ls) : ~blank(ls[i])}

\* C9 -- Indentation normalization: when adjustIndentation was applied to
\* lines with at least one non-blank line, the result has the same length,
\* every blank line became the empty string, every non-blank line lost
\* exactly its first m characters, m being the least number of leading
\* white-space characters of the non-blank lines, some non-blank line has no
\* leading white space left, and the differences of indentation between
\* non-blank lines are kept.
C9_IndentationNormalization ==
    (tOp = "adjustIndentation" /\ nonBlanks(tPrev) # {}) =>
        LET NB == nonBlanks(tPrev)
            m == Min({leadingWs(tPrev[i]) : i \in NB})
        IN  /\ Len(tLines) = Len(tPrev)
            /\ \A i \in 1..Len(tPrev) : blank(tPrev[i]) => tLines[i] = ""
            /\ \A i \in NB :
                  /\ Len(tLines[i]) = Len(tPrev[i]) - m
                  /\ tPrev[i] = Substring(tPrev[i], 1, m) \o tLines[i]
                  /\ leadingWs(tLines[i]) = leadingWs(tPrev[i]) - m
            /\ \E i \in NB : leadingWs(tLines[i]) = 0
            /\ \A i, j \in NB :
                  leadingWs(tLines[i]) - leadingWs(tLines[j])
                      = leadingWs(tPrev[i]) - leadingWs(tPrev[j])

\* Reached: lines with a white-space-only line and two non-blank lines of
\* different indentation, the least of them positive, were normalized.
C9_Witness ==
    /\ tOp = "adjustIndentation"
    /\ \E i \in 1..Len(tPrev) : blank(tPrev[i]) /\ tPrev[i] # ""
    /\ \E i, j \in nonBlanks(tPrev) : leadingWs(tPrev[i]) < leadingWs(tPrev[j])
    /\ \A i \in nonBlanks(tPrev) : leadingWs(tPrev[i]) > 0

\* Every blank line of ls is empty and its least indentation is 0.
normalized(ls) ==
    /\ \A i \in 1..Len(ls) : blank(ls[i]) => ls[i] = ""
    /\ nonBlanks(ls) # {} => \E i \in nonBlanks(ls) : leadingWs(ls[i]) = 0

\* C10 -- Indentation idempotence: the result of adjustIndentation is left
\* unchanged by adjustIndentation, and lines whose least indentation is 0
\* and whose blank lines are empty are returned unchanged.
C10_IndentationIdempotence ==
    (tOp = "adjustIndentation") =>
        /\ adjustIndentation(tLines) = tLines
        /\ normalized(tPrev) => tLines = tPrev

\* Reached: a normalization that changed its lines, blank and non-blank.
C10_Witness ==
    /\ tOp = "adjustIndentation"
    /\ \E i \in 1..Len(tPrev) : blank(tPrev[i]) /\ tPrev[i] # tLines[i]
    /\ \E i \in nonBlanks(tPrev) : tPrev[i] # tLines[i]

\* The lines of ls that do not start with the line-comment marker.
nonComments(ls) == {i \in 1..Len(ls) : Substring(ls[i], 1, 2) # "//"}

blanksOf(ls) == {i \in 1..Len(ls) : blank(ls[i])}

\* C11 -- Leading blank-line removal: when removeFirstLineAfterComments was
\* applied, if the first line that does not start with // exists and is
\* blank, the result is the argument without exactly that line, the others
\* in their order; otherwise the result is the argument; so of k >= 2 blank
\* lines after the comment preamble k-1 remain.
C11_LeadingBlankRemoval ==
    (tOp = "removeFirstLineAfterComments") =>
        LET F == nonComments(tPrev)
            f == Min(F)
        IN  IF F # {} /\ blank(tPrev[f])
            THEN /\ Len(tLines) = Len(tPrev) - 1
                 /\ \A i \in 1..(f - 1) : tLines[i] = tPrev[i]
                 /\ \A i \in f..Len(tLines) : tLines[i] = tPrev[i + 1]
                 /\ Cardinality(blanksOf(tLines))
                       = Cardinality(blanksOf(tPrev)) - 1
            ELSE tLines = tPrev

\* Reached: a comment line followed by two blank lines, of which one is left.
C11_Witness ==
    /\ tOp = "removeFirstLineAfterComments"
    /\ Len(tPrev) = 3
    /\ Substring(tPrev[1], 1, 2) = "//"
    /\ blank(tPrev[2])
    /\ blank(tPrev[3])
    /\ Len(tLines) = 2
    /\ blank(tLines[2])

\* The directory of the snippets of each source file.
ExpectedDir(p) ==
    CASE p = "./a.js" -> "snippets/a"
      [] p = "./b.c.js" -> "snippets/b-c"
      [] p = "./b-c.js" -> "snippets/b-c"
      [] p = "./lib/d.js" -> "snippets/lib/d"

\* The tag line l with the suffix appended to the name in its tag: the text
\* before the tag, the tag with name and suffix, the text after the tag.
suffixedTag(l, suffix) ==
    LET m == IF kindOf(l) = "Start" THEN RE_START_SNIPPET(l)
             ELSE RE_END_SNIPPET(l)
        kw == IF kindOf(l) = "Start" THEN "[START " ELSE "[END "
    IN  Substring(l, 1, m.index - 1) \o kw \o nameOf(l) \o suffix \o "]"
            \o Substring(l, m.last + 1, Len(l))

\* The write made for the k-th region of the file main is at.
writeOf(k) == writeLog[Len(writeLog) - (ei - 1) + k]

\* C12 -- Tag suffixing: for every region of the file being emitted, the
\* suffixing step gives every Start/End tag line the same tag with the
\* suffix appended to its name and leaves every other line as it is; and
\* every file written for the regions is <region name>.js, without the
\* suffix, in the directory of the source file's slug, with the suffixed
\* Start tag (and End tag, when the region has one) in its content and the
\* unsuffixed Start tag gone.
C12_TagSuffixing ==
    (pc = "emit") =>
        /\ \A n \in DOMAIN config.map :
              LET r == config.map[n]
                  o == addSuffixToSnippetNames(r, config.suffix)
              IN  /\ Len(o) = Len(r)
                  /\ \A i \in 1..Len(r) :
                        IF kindOf(r[i]) = "None" THEN o[i] = r[i]
                        ELSE o[i] = suffixedTag(r[i], config.suffix)
        /\ \A k \in 1..(ei - 1) :
              LET n == mapKeys[k]
                  w == writeOf(k)
              IN  /\ w[1] = fileNames[fi]
                  /\ w[2] = ExpectedDir(fileNames[fi]) \o "/" \o n \o ".js"
                  /\ w[2] \in DOMAIN out
                  /\ IndexOf(w[3], "[START " \o n \o config.suffix \o "]") > 0
                  /\ IndexOf(w[3], "[START " \o n \o "]") = 0
                  /\ n \notin OpenSet =>
                        IndexOf(w[3], "[END " \o n \o config.suffix \o "]") > 0

\* Reached: a closed region written with a suffix that starts with a digit.
C12_Witness ==
    /\ pc = "emit"
    /\ ei = 2
    /\ config.suffix = "2x"
    /\ mapKeys[1] \notin OpenSet
    /\ IndexOf(writeOf(1)[3], "[END " \o mapKeys[1] \o "2x]") > 0

\* The suffix that each suffix marker line of the inputs declares.
MarkerValue(l) ==
    CASE l = "// [SNIPPETS_SUFFIX _doc]" -> "_doc"
      [] l = "/* [SNIPPETS_SUFFIX  _x9] */" -> "_x9"
      [] l = "// [SNIPPETS_SUFFIX 2x]" -> "2x"

markerLines(ls) == {i \in 1..Len(ls) : ls[i] \in SuffixPool}

\* C13 -- Suffix selection: while an enabled file is scanned and emitted, its
\* suffix is the one declared by the first suffix marker line of the file,
\* wherever that line is and whatever markers follow, and "_modular" when
\* the file has no marker; every file written for it carries that suffix in
\* its Start tag.
C13_SuffixSelection ==
    (pc \in {"scan", "emit"}) =>
        /\ config.suffix =
              IF markerLines(lines) = {} THEN "_modular"
              ELSE MarkerValue(lines[Min(markerLines(lines))])
        /\ (pc = "emit") =>
              \A k \in 1..(ei - 1) :
                 LET tag == "[START " \o mapKeys[k] \o
                              (IF markerLines(lines) = {} THEN "_modular"
                               ELSE MarkerValue(lines[Min(markerLines(lines))]))
                              \o "]"
                 IN  IndexOf(writeOf(k)[3], tag) > 0

\* Reached: a region written for a file with three markers of different
\* suffixes, two before and one after the region.
C13_Witness ==
    /\ pc = "emit"
    /\ ei = 2
    /\ Cardinality(markerLines(lines)) = 3
    /\ Cardinality({lines[i] : i \in markerLines(lines)}) = 3
    /\ \E i \in markerLines(lines), j \in 1..Len(lines) :
          kindOf(lines[j]) = "End" /\ j < i
    /\ config.suffix # "_modular"

\* C14 -- Content fan-out: a step of the scan at a line that is neither a
\* Start nor an End tag appends the line once to every region whose name is
\* in the open set and leaves every other region, the keys of the mapping
\* and the open set as they are; with an empty open set no region changes.
C14_ContentFanOut ==
    [][ (pc = "scan" /\ li <= Len(lines) /\ kindOf(lines[li]) = "None") =>
            /\ pc' = "scan"
            /\ li' = li + 1
            /\ inSnippetNames' = inSnippetNames
            /\ DOMAIN config'.map = DOMAIN config.map
            /\ \A n \in DOMAIN config.map :
                  config'.map[n] = IF n \in OpenSet
                                   THEN Append(config.map[n], lines[li])
                                   ELSE config.map[n]
      ]_vars

\* Reached: a content line collected into two open regions.
C14_Witness ==
    /\ pc = "scan"
    /\ li > 1
    /\ kindOf(lines[li - 1]) = "None"
    /\ Cardinality(OpenSet) = 2
    /\ \A n \in OpenSet : config.map[n][Len(config.map[n])] = lines[li - 1]

prefix(a, b) == Len(a) <= Len(b) /\ SubSeq(b, 1, Len(a)) = a

\* Region n holds its own End tag line.
hasEnd(n) ==
    \E i \in 1..Len(config.map[n]) : isEndOf(config.map[n][i], n)

\* C15 -- Region lifecycle: every step of the scan of a file keeps every
\* region of the mapping, with its sequence before the step a prefix of its
\* sequence after the step, and leaves the sequence of a region that holds
\* its End line unchanged.
C15_RegionLifecycle ==
    [][ (pc = "scan") =>
            \A n \in DOMAIN config.map :
                /\ n \in DOMAIN config'.map
                /\ prefix(config.map[n], config'.map[n])
                /\ hasEnd(n) => config'.map[n] = config.map[n]
      ]_vars

\* Reached: a region is closed and a later content line went to another,
\* open region.
C15_Witness ==
    /\ pc = "scan"
    /\ li > 1
    /\ kindOf(lines[li - 1]) = "None"
    /\ OpenSet # {}
    /\ \E n \in DOMAIN config.map :
          /\ hasEnd(n)
          /\ config.map[n][Len(config.map[n])] # lines[li - 1]

\* The Start tag at line i of ls has no End tag of its name after it.
DanglingAt(ls, i) ==
    /\ kindOf(ls[i]) = "Start"
    /\ \A m \in (i + 1)..Len(ls) : ~isEndOf(ls[m], nameOf(ls[i]))

\* The End tag at line j of ls closes no region: no Start of its name comes
\* before it without an End of that name in between.
UnmatchedEndAt(ls, j) ==
    /\ kindOf(ls[j]) = "End"
    /\ ~ \E i \in 1..(j - 1) :
            /\ isStartOf(ls[i], nameOf(ls[j]))
            /\ \A m \in (i + 1)..(j - 1) : ~isEndOf(ls[m], nameOf(ls[j]))

UnmatchedEnds(ls) == {j \in 1..Len(ls) : UnmatchedEndAt(ls, j)}

\* C16 as stated -- Dangling region: for an enabled file with no duplicate
\* Start and no unmatched End in which a Start tag has no later End tag of
\* its name, collecting the file raises no error, the name is in the open
\* set at the end of the file and is a key of the returned mapping, and once
\* main has emitted the file's snippets an output file exists for it.
C16_Dangling ==
    \A i \in 1..Len(lines) :
        ( /\ pc \in {"emit", "failed"}
          /\ HasEnablementMarker(lines)
          /\ RepeatedStarts(lines) = {}
          /\ UnmatchedEnds(lines) = {}
          /\ DanglingAt(lines, i) ) =>
            /\ pc = "emit"
            /\ error = NoError
            /\ nameOf(lines[i]) \in OpenSet
            /\ nameOf(lines[i]) \in DOMAIN config.map
            /\ isStartOf(config.map[nameOf(lines[i])][1], nameOf(lines[i]))
            /\ (ei > Len(mapKeys)) =>
                  (ExpectedDir(readLog[Len(readLog)]) \o "/" \o nameOf(lines[i]) \o ".js")
                      \in DOMAIN out

\* C17 as stated -- First Start accepted: a step of the scan at a Start tag
\* line whose name no earlier Start tag line of the file carries raises no
\* error; it creates the region with just that line and adds the name to
\* the open set.
C17_FirstStart ==
    [][ ( /\ pc = "scan"
          /\ li <= Len(lines)
          /\ kindOf(lines[li]) = "Start"
          /\ ~RepeatedStartAt(lines, li) ) =>
            /\ pc' = "scan"
            /\ error' = NoError
            /\ li' = li + 1
            /\ nameOf(lines[li]) \in DOMAIN config'.map
            /\ config'.map[nameOf(lines[li])] = <<lines[li]>>
            /\ nameOf(lines[li]) \in OpenSet'
      ]_vars

\* C18 -- Open-set invariant: at every step of the scan of a file, and
\* after it, the list of open names holds no name twice, every open name is
\* a key of the mapping, and a region of the mapping holds its own End tag
\* line exactly if its name is not in the open list.
C18_OpenSetInvariant ==
    (pc \in {"scan", "emit", "failed"}) =>
        /\ \A i, j \in 1..Len(inSnippetNames) :
              inSnippetNames[i] = inSnippetNames[j] => i = j
        /\ OpenSet \subseteq DOMAIN config.map
        /\ \A n \in DOMAIN config.map : hasEnd(n) <=> n \notin OpenSet

\* Reached: in the middle of a scan, one region is closed and another open.
C18_Witness ==
    /\ pc = "scan"
    /\ li <= Len(lines)
    /\ Cardinality(DOMAIN config.map) = 2
    /\ Cardinality(OpenSet) = 1
    /\ \E n \in DOMAIN config.map : hasEnd(n) /\ n \notin OpenSet

\* C19 -- Tag-line frame: a step of the scan at a Start or End tag line for
\* region n adds no key but n to the mapping and leaves the sequence and the
\* open-set membership of every other region unchanged.
C19_TagLineFrame ==
    [][ (pc = "scan" /\ li <= Len(lines) /\ kindOf(lines[li]) # "None") =>
            /\ DOMAIN config.map \subseteq DOMAIN config'.map
            /\ DOMAIN config'.map \subseteq DOMAIN config.map \cup {nameOf(lines[li])}
            /\ \A m \in DOMAIN config.map \ {nameOf(lines[li])} :
                  config'.map[m] = config.map[m]
            /\ OpenSet' \ {nameOf(lines[li])} = OpenSet \ {nameOf(lines[li])}
      ]_vars

\* Reached: a Start tag was processed while another region was open.
C19_Witness ==
    /\ pc = "scan"
    /\ li > 1
    /\ kindOf(lines[li - 1]) = "Start"
    /\ Cardinality(OpenSet) = 2
    /\ \A m \in OpenSet \ {nameOf(lines[li - 1])} :
          config.map[m][Len(config.map[m])] # lines[li - 1]

====
